---- MODULE Spec2Model ----
(***************************************************************************)
(* Pet image generator (generate.js + pets.js).                            *)
(*                                                                         *)
(* One run of the script is one Node.js process: the module body checks    *)
(* the credential, main() sets up ./images, walks the catalog in order     *)
(* (skip when the file exists, otherwise generateImage -> downloadImage    *)
(* -> pause, with a catch around the three), and prints the summary.       *)
(* Every await of main is a step of the model; the answers of the remote   *)
(* service and of the file system are chosen by the environment.           *)
(***************************************************************************)
EXTENDS Integers, Sequences, FiniteSets, TLC

\* ------------------------------------------------------------------ bounds
NumPets == 2    \* records of the catalog that are modelled (the catalog has 48)
MaxRuns == 2    \* consecutive runs of the script on the same directory
MaxCost == 1    \* largest cost a generation result reports, in units of $0.0001
                \* (the precision of the summary's toFixed(4), which prints whole
                \* units exactly)

\* ----------------------------------------------------------------- catalog
\* The first records of `pets` (id, temperament, prompt; the other fields
\* are not read by the generator apart from `name`, used in a log line).
catalog ==
  << [id |-> "a3f8c1", temperament |-> "affectionate",
      prompt |-> "fluffy orange tabby cat with green eyes"],
     [id |-> "b7e2d4", temperament |-> "playful",
      prompt |-> "playful marmalade cat batting at a toy"],
     [id |-> "c9a1f6", temperament |-> "independent",
      prompt |-> "sleek black cat with golden eyes sitting elegantly"],
     [id |-> "d2c5b8", temperament |-> "playful",
      prompt |-> "tiny white kitten with blue eyes and pink nose"],
     [id |-> "e6f3a2", temperament |-> "calm",
      prompt |-> "fluffy gray and white tuxedo cat"] >>

pets == SubSeq(catalog, 1, NumPets)

\* ------------------------------------------------- temperament -> expression
temperamentToExpression ==
  [t \in {"calm", "playful", "affectionate", "shy", "energetic", "independent"} |->
     CASE t = "calm"         -> "peaceful"
       [] t = "playful"      -> "happy"
       [] t = "affectionate" -> "friendly"
       [] t = "shy"          -> "gentle"
       [] t = "energetic"    -> "excited"
       [] t = "independent"  -> "confident"]

\* temperamentToExpression is a plain object literal, so a property read that
\* misses the own keys goes on to Object.prototype.  Its property names and
\* the text each value has when it is put in a template literal:
ObjectPrototype ==
  [k \in {"constructor", "toString", "valueOf", "hasOwnProperty", "__proto__"} |->
     CASE k = "constructor"    -> "function Object() { [native code] }"
       [] k = "toString"       -> "function toString() { [native code] }"
       [] k = "valueOf"        -> "function valueOf() { [native code] }"
       [] k = "hasOwnProperty" -> "function hasOwnProperty() { [native code] }"
       [] k = "__proto__"      -> "[object Object]"]

\* JavaScript values that the lookup can yield: a string, an object (a
\* function or Object.prototype itself), or undefined.
Undefined == [type |-> "undefined", text |-> "undefined"]
Str(s)    == [type |-> "string", text |-> s]
Obj(s)    == [type |-> "object", text |-> s]

\* temperamentToExpression[key]: own property, then the prototype chain.
GetProperty(key) ==
  IF key \in DOMAIN temperamentToExpression THEN Str(temperamentToExpression[key])
  ELSE IF key \in DOMAIN ObjectPrototype THEN Obj(ObjectPrototype[key])
  ELSE Undefined

\* ToBoolean, as `||` applies it.
Truthy(v) ==
  CASE v.type = "undefined" -> FALSE
    [] v.type = "string"    -> v.text # ""
    [] v.type = "object"    -> TRUE

\* a || b
OrElse(a, b) == IF Truthy(a) THEN a ELSE b

\* buildPrompt(pet)
buildPrompt(pet) ==
  LET expression == OrElse(GetProperty(pet.temperament), Str("friendly"))
  IN  "simple cartoon illustration of a " \o pet.prompt
        \o ", white background, " \o expression.text \o " expression, flat colors"

\* ------------------------------------------------------------------- state
VARIABLES
  apiKey,     \* process.env.RUNWARE_API_KEY is set and non-empty
  pc,         \* where the process is: "load", "exited", "main", "mkdir", "loop",
              \* "gen", "dl", "write", "pause", "done", "rejected"
  exitCode,   \* the exit status the process has set (0 when it set none)
  dirExists,  \* ./images exists
  files,      \* contents of ./images/<id>.webp for every record, NoFile when absent
  idx,        \* position of the for...of loop in pets (NumPets + 1 once it is over)
  totalCost, generated, failed,   \* the three counters of main
  result,     \* main's `result`, the value generateImage returned for this record
  console,    \* the progress lines printed so far in this run
  summary,    \* the summaries printed so far in this run
  net,        \* the HTTP requests sent so far in this run
  run,        \* number of the current run
  obs,        \* per record, what happened to it in this run (history only)
  thrown,     \* exceptions raised inside the try block in this run (history only)
  start,      \* the directory as the current run found it (history only)
  prev,       \* how the run before this one ended (history only)
  arg, ret    \* argument and result of buildPrompt when it is exercised alone

vars == << apiKey, pc, exitCode, dirExists, files, idx, totalCost, generated, failed,
           result, console, summary, net, run, obs, thrown, start, prev, arg, ret >>

prog == << apiKey, pc, exitCode, dirExists, files, idx, totalCost, generated, failed,
           result, console, summary, net, run >>

Recs == 1..NumPets

\* `./images/${pet.id}.webp`
filename(pet) == "./images/" \o pet.id \o ".webp"

Paths == { filename(pets[i]) : i \in Recs }

NoFile == "<absent>"
Contents == {"old", "img", "partial"}   \* bytes a file can hold

\* existsSync with the bug of finding every file.
existsSyncAlways(path) == TRUE

\* existsSync with the bug of never finding the file.
existsSyncNever(path) == FALSE

\* existsSync(path) for a path inside ./images
existsSync(path) == dirExists /\ files[path] # NoFile

\* ------------------------------------------------- the remote service's answers
Costs == 0..MaxCost

\* A value main can hold in `result`: result.data[0], or undefined.
NoResult == [defined |-> FALSE, imageURL |-> FALSE, hasCost |-> FALSE, cost |-> 0]

Entries ==
  { e \in [defined : {TRUE}, imageURL : BOOLEAN, hasCost : BOOLEAN, cost : Costs] :
      ~e.hasCost => e.cost = 0 }

\* What the POST to API_URL comes back with: the fetch rejects, or a response
\* with a status (ok or not), a body that parses as JSON or not, and in the
\* parsed body an `errors` field or not and a `data` field (missing, an empty
\* array, or an array whose first element is `entry`).
GenResponses ==
  { r \in [net : {"rejected", "response"}, ok : BOOLEAN, json : BOOLEAN,
           errors : BOOLEAN, data : {"missing", "empty", "entry"},
           entry : Entries \cup {NoResult}] :
      /\ (r.data = "entry") <=> r.entry.defined
      /\ r.net = "rejected" =>
           /\ ~r.ok /\ ~r.json /\ ~r.errors /\ r.data = "missing"
      /\ ~r.json => ~r.errors /\ r.data = "missing"
      \* a body that is never read past `errors`: one representative entry
      /\ (r.net = "response" /\ (~r.ok \/ r.errors)) /\ r.data = "entry" =>
           r.entry = [defined |-> TRUE, imageURL |-> TRUE, hasCost |-> TRUE,
                      cost |-> MaxCost] }

\* The kind of answer, as the service gave it (for the history only).
Class(r) ==
  IF r.net = "rejected" THEN "rejected"
  ELSE IF ~r.ok THEN (IF r.json /\ r.errors THEN "status_errors" ELSE "status")
  ELSE IF ~r.json THEN "badjson"
  ELSE IF r.errors THEN (IF r.data = "entry" THEN "errors_data" ELSE "errors")
  ELSE IF r.data = "missing" THEN "nodata"
  ELSE IF r.data = "empty" THEN "empty"
  ELSE "entry"

\* What the GET of the image URL comes back with.
DlResponses == {"rejected", "http_error", "body_error", "ok"}

\* How writeFile ends: done, or failed leaving no file, or failed leaving a
\* file that holds part of the bytes.
WriteResults == {"ok", "failed_nofile", "failed_partial"}

Throw(m)  == [threw |-> TRUE, message |-> m, value |-> NoResult]
Return(v) == [threw |-> FALSE, message |-> "", value |-> v]

\* generateImage without the `!response.ok` check.
generateImageNoStatusCheck(response) ==
  IF response.net = "rejected" THEN Throw("fetch failed")
  ELSE IF ~response.json THEN Throw("SyntaxError")
  ELSE IF response.errors THEN Throw("API error: <errors>")
  ELSE IF response.data = "missing" THEN Throw("TypeError")
  ELSE IF response.data = "empty" THEN Return(NoResult)
  ELSE Return(response.entry)

\* generateImage without the `result.errors` check.
generateImageNoErrorsCheck(response) ==
  IF response.net = "rejected" THEN Throw("fetch failed")
  ELSE IF ~response.ok THEN Throw("API error: <status>")
  ELSE IF ~response.json THEN Throw("SyntaxError")
  ELSE IF response.data = "missing" THEN Throw("TypeError")
  ELSE IF response.data = "empty" THEN Return(NoResult)
  ELSE Return(response.entry)

\* generateImage with a status error whose message leaves the status out.
generateImageStatusNoCode(response) ==
  IF response.net = "rejected" THEN Throw("fetch failed")
  ELSE IF ~response.ok THEN Throw("API error")
  ELSE IF ~response.json THEN Throw("SyntaxError")
  ELSE IF response.errors THEN Throw("API error: <errors>")
  ELSE IF response.data = "missing" THEN Throw("TypeError")
  ELSE IF response.data = "empty" THEN Return(NoResult)
  ELSE Return(response.entry)

\* generateImage reading the body and its `errors` field before the status.
generateImageErrorsFirst(response) ==
  IF response.net = "rejected" THEN Throw("fetch failed")
  ELSE IF ~response.json THEN Throw("SyntaxError")
  ELSE IF response.errors THEN Throw("API error: <errors>")
  ELSE IF ~response.ok THEN Throw("API error: <status>")
  ELSE IF response.data = "missing" THEN Throw("TypeError")
  ELSE IF response.data = "empty" THEN Return(NoResult)
  ELSE Return(response.entry)

\* generateImage(pet), from the response on: what it throws or returns.
generateImage(response) ==
  IF response.net = "rejected" THEN Throw("fetch failed")
  ELSE IF ~response.ok THEN Throw("API error: <status>")
  ELSE IF ~response.json THEN Throw("SyntaxError")
  ELSE IF response.errors THEN Throw("API error: <errors>")
  ELSE IF response.data = "missing" THEN Throw("TypeError")
  ELSE IF response.data = "empty" THEN Return(NoResult)
  ELSE Return(response.entry)

\* `result.cost || 1`: a result without a cost counted as one unit.
costAbsentAsUnit(r) == IF r.hasCost /\ r.cost # 0 THEN r.cost ELSE 1

\* The cost never added to the total.
costIgnored(r) == 0

\* result.cost || 0
costOrZero(r) == IF r.hasCost /\ r.cost # 0 THEN r.cost ELSE 0

\* crypto.randomUUID(): a version-4 UUID drawn from the system's random
\* source.  Two draws are taken to give two different values (122 random
\* bits), so a value is named by the rank of its draw in the process; the only
\* draws of the script are made by generateImage, one per call, right before
\* its request is sent.
randomUUID == Cardinality({ k \in DOMAIN net : net[k].method = "POST" }) + 1

\* --------------------------------------------------------------- history
NoObs == [seen |-> "unreached", gen |-> "none", hasCost |-> FALSE, cost |-> 0,
          dl |-> "none", write |-> "none", pause |-> "none"]

Note(field, value) == [obs EXCEPT ![idx][field] = value]

\* Whether record i has its file at this moment.
Seen(i) == IF files[filename(pets[i])] # NoFile THEN "present" ELSE "absent"

Faulty == thrown > 0 \/ pc = "rejected"

Line(tag, id, text) == [tag |-> tag, id |-> id, text |-> text]

\* -------------------------------------------------------------------- Init
Init ==
  /\ apiKey \in BOOLEAN
  /\ pc = "load"
  /\ exitCode = 0
  /\ dirExists \in BOOLEAN
  /\ files \in [Paths -> {NoFile, "old"}]
  /\ ~dirExists => \A p \in Paths : files[p] = NoFile
  /\ idx = 1
  /\ totalCost = 0 /\ generated = 0 /\ failed = 0
  /\ result = NoResult
  /\ console = << >> /\ summary = << >> /\ net = << >>
  /\ run = 1
  /\ obs = [i \in Recs |-> NoObs]
  /\ thrown = 0
  /\ start = [dir |-> dirExists, files |-> files]
  /\ prev = [end |-> "none", faulty |-> FALSE]
  /\ arg = catalog[1] /\ ret = ""

\* ----------------------------------------------------------------- actions
\* The module body without the process.exit(1).
CheckApiKeyNoExit ==
  /\ pc = "load"
  /\ pc' = "main"
  /\ console' = IF ~apiKey THEN Append(console, Line("NOKEY", "", "")) ELSE console
  /\ UNCHANGED << apiKey, exitCode, dirExists, files, idx, totalCost, generated,
                  failed, result, summary, net, run, obs, thrown, start, prev,
                  arg, ret >>

\* Module body: `if (!API_KEY) { console.error(...); process.exit(1); }`,
\* then the definitions, then `main()` is called.
CheckApiKey ==
  /\ pc = "load"
  /\ IF ~apiKey
       THEN /\ pc' = "exited"
            /\ exitCode' = 1
            /\ console' = Append(console, Line("NOKEY", "", ""))
       ELSE /\ pc' = "main"
            /\ UNCHANGED << exitCode, console >>
  /\ UNCHANGED << apiKey, dirExists, files, idx, totalCost, generated, failed,
                  result, summary, net, run, obs, thrown, start, prev, arg, ret >>

\* main() calling mkdir whether or not the directory is there.
MainSetupAlwaysMkdir ==
  /\ pc = "main"
  /\ console' = Append(console, Line("START", "", ""))
  /\ pc' = "mkdir"
  /\ totalCost' = 0 /\ generated' = 0 /\ failed' = 0
  /\ idx' = 1
  /\ UNCHANGED << apiKey, exitCode, dirExists, files, result, summary, net, run,
                  obs, thrown, start, prev, arg, ret >>

\* main(), up to its first await: the start line, then
\* `if (!existsSync("./images")) await mkdir("./images")`, else on to the loop.
MainSetup ==
  /\ pc = "main"
  /\ console' = Append(console, Line("START", "", ""))
  /\ pc' = IF ~dirExists THEN "mkdir" ELSE "loop"
  /\ totalCost' = 0 /\ generated' = 0 /\ failed' = 0
  /\ idx' = 1
  /\ UNCHANGED << apiKey, exitCode, dirExists, files, result, summary, net, run,
                  obs, thrown, start, prev, arg, ret >>

\* mkdir inside a try block that swallows its failure: the loop is entered.
MkdirReturnIgnoreError ==
  /\ pc = "mkdir"
  /\ \E ok \in BOOLEAN :
       /\ dirExists' = ok
       /\ pc' = "loop"
       /\ UNCHANGED console
  /\ UNCHANGED << apiKey, exitCode, files, idx, totalCost, generated, failed,
                  result, summary, net, run, obs, thrown, start, prev, arg, ret >>

\* mkdir settles: the directory is there, or main rejects and the rejection
\* goes to main().catch(console.error).
MkdirReturn ==
  /\ pc = "mkdir"
  /\ \E ok \in BOOLEAN :
       IF ok
         THEN /\ dirExists' = TRUE
              /\ pc' = "loop"
              /\ UNCHANGED console
         ELSE /\ pc' = "rejected"
              /\ console' = Append(console, Line("UNCAUGHT", "", "mkdir failed"))
              /\ UNCHANGED dirExists
  /\ UNCHANGED << apiKey, exitCode, files, idx, totalCost, generated, failed,
                  result, summary, net, run, obs, thrown, start, prev, arg, ret >>

\* A catch block that prints and rethrows: main rejects.
CatchRethrow(message) ==
  /\ console' = Append(console, Line("UNCAUGHT", "", message))
  /\ pc' = "rejected"
  /\ UNCHANGED << failed, idx, generated >>

\* A catch block that gives up: it prints the failure and ends the process.
CatchExit(message) ==
  /\ console' = Append(console, Line("FAILED", pets[idx].id, message))
  /\ pc' = "exited"
  /\ UNCHANGED << failed, idx, generated >>

\* The pause moved to a `finally`: it is taken after a failure too.
CatchWithPause(message) ==
  /\ console' = Append(console, Line("FAILED", pets[idx].id, message))
  /\ failed' = failed + 1
  /\ pc' = "pause"
  /\ UNCHANGED << idx, generated >>

\* A catch block that counts the failure and tries the same record again.
CatchRetry(message) ==
  /\ console' = Append(console, Line("FAILED", pets[idx].id, message))
  /\ failed' = failed + 1
  /\ pc' = "loop"
  /\ UNCHANGED << idx, generated >>

\* The catch block of the loop body: print the failure, failed++, and the
\* for...of loop goes on to the next record.
Catch(message) ==
  /\ console' = Append(console, Line("FAILED", pets[idx].id, message))
  /\ failed' = failed + 1
  /\ idx' = idx + 1
  /\ pc' = "loop"
  /\ UNCHANGED generated

\* The skip branch without its generated++.
LoopSkipNoCount ==
  /\ pc = "loop" /\ idx <= NumPets
  /\ existsSync(filename(pets[idx]))
  /\ console' = Append(console, Line("SKIP", pets[idx].id, ""))
  /\ idx' = idx + 1
  /\ obs' = Note("seen", Seen(idx))
  /\ UNCHANGED << apiKey, pc, exitCode, dirExists, files, totalCost, generated,
                  failed, result, summary, net, run, thrown, start, prev, arg, ret >>

\* The skip branch without its `continue`: it falls through to the try block.
LoopSkipNoContinue ==
  /\ pc = "loop" /\ idx <= NumPets
  /\ existsSync(filename(pets[idx]))
  /\ console' = Append(Append(console, Line("SKIP", pets[idx].id, "")),
                       Line("GEN", pets[idx].id, ""))
  /\ generated' = generated + 1
  /\ net' = Append(net, [method |-> "POST", id |-> pets[idx].id,
                         prompt |-> buildPrompt(pets[idx]),
                         taskUUID |-> randomUUID])
  /\ pc' = "gen"
  /\ obs' = Note("seen", Seen(idx))
  /\ UNCHANGED << apiKey, exitCode, dirExists, files, idx, totalCost, failed,
                  result, summary, run, thrown, start, prev, arg, ret >>

\* Loop body when the file is there: `[SKIP]`, generated++, continue.
LoopSkip ==
  /\ pc = "loop" /\ idx <= NumPets
  /\ existsSync(filename(pets[idx]))
  /\ console' = Append(console, Line("SKIP", pets[idx].id, ""))
  /\ generated' = generated + 1
  /\ idx' = idx + 1
  /\ obs' = Note("seen", Seen(idx))
  /\ UNCHANGED << apiKey, pc, exitCode, dirExists, files, totalCost, failed, result,
                  summary, net, run, thrown, start, prev, arg, ret >>

\* generateImage called twice for a record (a retry that is not in the code).
LoopGenerateTwice ==
  /\ pc = "loop" /\ idx <= NumPets
  /\ ~existsSync(filename(pets[idx]))
  /\ console' = Append(console, Line("GEN", pets[idx].id, ""))
  /\ net' = Append(Append(net, [method |-> "POST", id |-> pets[idx].id,
                                prompt |-> buildPrompt(pets[idx]),
                                taskUUID |-> randomUUID]),
                   [method |-> "POST", id |-> pets[idx].id,
                    prompt |-> buildPrompt(pets[idx]),
                    taskUUID |-> randomUUID + 1])
  /\ pc' = "gen"
  /\ obs' = Note("seen", Seen(idx))
  /\ UNCHANGED << apiKey, exitCode, dirExists, files, idx, totalCost, generated,
                  failed, result, summary, run, thrown, start, prev, arg, ret >>

\* generateImage called without `await`: the loop goes on at once.
LoopGenerateNoAwait ==
  /\ pc = "loop" /\ idx <= NumPets
  /\ ~existsSync(filename(pets[idx]))
  /\ console' = Append(console, Line("GEN", pets[idx].id, ""))
  /\ net' = Append(net, [method |-> "POST", id |-> pets[idx].id,
                         prompt |-> buildPrompt(pets[idx]),
                         taskUUID |-> randomUUID])
  /\ idx' = idx + 1
  /\ obs' = Note("seen", Seen(idx))
  /\ UNCHANGED << apiKey, pc, exitCode, dirExists, files, totalCost, generated,
                  failed, result, summary, run, thrown, start, prev, arg, ret >>

\* generateImage with a task identifier made once, when the module is loaded.
LoopGenerateFixedUUID ==
  /\ pc = "loop" /\ idx <= NumPets
  /\ ~existsSync(filename(pets[idx]))
  /\ console' = Append(console, Line("GEN", pets[idx].id, ""))
  /\ net' = Append(net, [method |-> "POST", id |-> pets[idx].id,
                         prompt |-> buildPrompt(pets[idx]),
                         taskUUID |-> 1])
  /\ pc' = "gen"
  /\ obs' = Note("seen", Seen(idx))
  /\ UNCHANGED << apiKey, exitCode, dirExists, files, idx, totalCost, generated,
                  failed, result, summary, run, thrown, start, prev, arg, ret >>

\* Loop body when the file is missing, up to the await inside generateImage:
\* `[GEN]`, the prompt is built, the task identifier is drawn and the POST is
\* sent.
LoopGenerate ==
  /\ pc = "loop" /\ idx <= NumPets
  /\ ~existsSync(filename(pets[idx]))
  /\ console' = Append(console, Line("GEN", pets[idx].id, ""))
  /\ net' = Append(net, [method |-> "POST", id |-> pets[idx].id,
                         prompt |-> buildPrompt(pets[idx]),
                         taskUUID |-> randomUUID])
  /\ pc' = "gen"
  /\ obs' = Note("seen", Seen(idx))
  /\ UNCHANGED << apiKey, exitCode, dirExists, files, idx, totalCost, generated,
                  failed, result, summary, run, thrown, start, prev, arg, ret >>

\* The cost assigned to the total (`=` for `+=`).
GenReturnAssignCost ==
  /\ pc = "gen"
  /\ \E response \in GenResponses :
       LET r == generateImage(response)
           o == [obs[idx] EXCEPT !.gen = Class(response),
                                 !.hasCost = response.entry.hasCost,
                                 !.cost = response.entry.cost]
       IN
       IF r.threw \/ ~r.value.defined
         THEN /\ Catch(IF r.threw THEN r.message ELSE "TypeError")
              /\ thrown' = thrown + 1
              /\ obs' = [obs EXCEPT ![idx] = o]
              /\ result' = r.value
              /\ UNCHANGED << totalCost, net >>
         ELSE /\ result' = r.value
              /\ totalCost' = costOrZero(r.value)
              /\ IF r.value.imageURL
                   THEN /\ net' = Append(net, [method |-> "GET", id |-> pets[idx].id,
                                               prompt |-> ""])
                        /\ pc' = "dl"
                        /\ obs' = [obs EXCEPT ![idx] = o]
                        /\ UNCHANGED << console, failed, idx, generated, thrown >>
                   ELSE /\ Catch("fetch failed")
                        /\ thrown' = thrown + 1
                        /\ obs' = [obs EXCEPT ![idx] = [o EXCEPT !.dl = "nourl"]]
                        /\ UNCHANGED net
  /\ UNCHANGED << apiKey, exitCode, dirExists, files, summary, run, start, prev,
                  arg, ret >>

\* downloadImage returning at once when it is given no URL.
GenReturnSkipMissingURL ==
  /\ pc = "gen"
  /\ \E response \in GenResponses :
       LET r == generateImage(response)
           o == [obs[idx] EXCEPT !.gen = Class(response),
                                 !.hasCost = response.entry.hasCost,
                                 !.cost = response.entry.cost]
       IN
       IF r.threw \/ ~r.value.defined
         THEN /\ Catch(IF r.threw THEN r.message ELSE "TypeError")
              /\ thrown' = thrown + 1
              /\ obs' = [obs EXCEPT ![idx] = o]
              /\ result' = r.value
              /\ UNCHANGED << totalCost, net >>
         ELSE /\ result' = r.value
              /\ totalCost' = totalCost + costOrZero(r.value)
              /\ IF r.value.imageURL
                   THEN /\ net' = Append(net, [method |-> "GET", id |-> pets[idx].id,
                                               prompt |-> ""])
                        /\ pc' = "dl"
                        /\ obs' = [obs EXCEPT ![idx] = o]
                        /\ UNCHANGED << console, failed, idx, generated, thrown >>
                   ELSE /\ console' = Append(console, Line("SAVED", pets[idx].id, ""))
                        /\ generated' = generated + 1
                        /\ pc' = "pause"
                        /\ obs' = [obs EXCEPT ![idx] = [o EXCEPT !.dl = "nourl"]]
                        /\ UNCHANGED << net, failed, idx, thrown >>
  /\ UNCHANGED << apiKey, exitCode, dirExists, files, summary, run, start, prev,
                  arg, ret >>

\* The POST settles.  generateImage throws or returns; on a return main adds
\* `result.cost || 0` to totalCost and calls downloadImage, whose fetch is sent
\* unless the URL is missing (then fetch rejects at once).  Reading `.cost` of
\* an undefined result throws before anything is added.
GenReturn ==
  /\ pc = "gen"
  /\ \E response \in GenResponses :
       LET r == generateImage(response)
           o == [obs[idx] EXCEPT !.gen = Class(response),
                                 !.hasCost = response.entry.hasCost,
                                 !.cost = response.entry.cost]
       IN
       IF r.threw \/ ~r.value.defined
         THEN /\ Catch(IF r.threw THEN r.message ELSE "TypeError")
              /\ thrown' = thrown + 1
              /\ obs' = [obs EXCEPT ![idx] = o]
              /\ result' = r.value
              /\ UNCHANGED << totalCost, net >>
         ELSE /\ result' = r.value
              /\ totalCost' = totalCost + costOrZero(r.value)
              /\ IF r.value.imageURL
                   THEN /\ net' = Append(net, [method |-> "GET", id |-> pets[idx].id,
                                               prompt |-> ""])
                        /\ pc' = "dl"
                        /\ obs' = [obs EXCEPT ![idx] = o]
                        /\ UNCHANGED << console, failed, idx, generated, thrown >>
                   ELSE /\ Catch("fetch failed")
                        /\ thrown' = thrown + 1
                        /\ obs' = [obs EXCEPT ![idx] = [o EXCEPT !.dl = "nourl"]]
                        /\ UNCHANGED net
  /\ UNCHANGED << apiKey, exitCode, dirExists, files, summary, run, start, prev,
                  arg, ret >>

\* downloadImage outside the try block: a failed download makes main reject.
DlReturnUncaught ==
  /\ pc = "dl"
  /\ \E response \in DlResponses :
       IF response = "ok"
         THEN /\ pc' = "write"
              /\ obs' = Note("dl", "ok")
              /\ UNCHANGED << console, thrown >>
         ELSE /\ pc' = "rejected"
              /\ console' = Append(console, Line("UNCAUGHT", "", "Download failed"))
              /\ thrown' = thrown + 1
              /\ obs' = Note("dl", response)
  /\ UNCHANGED << apiKey, exitCode, dirExists, files, idx, totalCost, generated,
                  failed, result, summary, net, run, start, prev, arg, ret >>

\* downloadImage without the `!response.ok` check: the body of an error
\* response is written to the file.
DlReturnNoOkCheck ==
  /\ pc = "dl"
  /\ \E response \in DlResponses :
       IF response \in {"ok", "http_error"}
         THEN /\ pc' = "write"
              /\ obs' = Note("dl", response)
              /\ UNCHANGED << console, failed, idx, generated, thrown >>
         ELSE /\ Catch(CASE response = "rejected"   -> "fetch failed"
                         [] response = "body_error" -> "body failed")
              /\ thrown' = thrown + 1
              /\ obs' = Note("dl", response)
  /\ UNCHANGED << apiKey, exitCode, dirExists, files, totalCost, result, summary,
                  net, run, start, prev, arg, ret >>

\* The GET settles inside downloadImage: a rejection, a non-ok status or an
\* unreadable body throws; otherwise writeFile is started.
DlReturn ==
  /\ pc = "dl"
  /\ \E response \in DlResponses :
       IF response = "ok"
         THEN /\ pc' = "write"
              /\ obs' = Note("dl", "ok")
              /\ UNCHANGED << console, failed, idx, generated, thrown >>
         ELSE /\ Catch(CASE response = "rejected"   -> "fetch failed"
                         [] response = "http_error" -> "Download failed: <status>"
                         [] response = "body_error" -> "body failed")
              /\ thrown' = thrown + 1
              /\ obs' = Note("dl", response)
  /\ UNCHANGED << apiKey, exitCode, dirExists, files, totalCost, result, summary,
                  net, run, start, prev, arg, ret >>

\* The success path without its generated++.
WriteReturnNoCount ==
  /\ pc = "write"
  /\ \E w \in WriteResults :
       IF w = "ok"
         THEN /\ files' = [files EXCEPT ![filename(pets[idx])] = "img"]
              /\ console' = Append(console, Line("SAVED", pets[idx].id, ""))
              /\ pc' = "pause"
              /\ obs' = [obs EXCEPT ![idx].write = "ok", ![idx].pause = "started"]
              /\ UNCHANGED << generated, failed, idx, thrown >>
         ELSE /\ files' = [files EXCEPT ![filename(pets[idx])] =
                             IF w = "failed_partial" THEN "partial" ELSE @]
              /\ Catch("write failed")
              /\ thrown' = thrown + 1
              /\ obs' = Note("write", w)
  /\ UNCHANGED << apiKey, exitCode, dirExists, totalCost, result, summary, net,
                  run, start, prev, arg, ret >>

\* The success path with the timer started and not awaited.
WriteReturnTimerNotAwaited ==
  /\ pc = "write"
  /\ \E w \in WriteResults :
       IF w = "ok"
         THEN /\ files' = [files EXCEPT ![filename(pets[idx])] = "img"]
              /\ console' = Append(console, Line("SAVED", pets[idx].id, ""))
              /\ generated' = generated + 1
              /\ idx' = idx + 1
              /\ pc' = "loop"
              /\ obs' = [obs EXCEPT ![idx].write = "ok", ![idx].pause = "started"]
              /\ UNCHANGED << failed, thrown >>
         ELSE /\ files' = [files EXCEPT ![filename(pets[idx])] =
                             IF w = "failed_partial" THEN "partial" ELSE @]
              /\ Catch("write failed")
              /\ thrown' = thrown + 1
              /\ obs' = Note("write", w)
  /\ UNCHANGED << apiKey, exitCode, dirExists, totalCost, result, summary, net,
                  run, start, prev, arg, ret >>

\* The success path without the timer: the loop goes on at once.
WriteReturnNoPause ==
  /\ pc = "write"
  /\ \E w \in WriteResults :
       IF w = "ok"
         THEN /\ files' = [files EXCEPT ![filename(pets[idx])] = "img"]
              /\ console' = Append(console, Line("SAVED", pets[idx].id, ""))
              /\ generated' = generated + 1
              /\ idx' = idx + 1
              /\ pc' = "loop"
              /\ obs' = Note("write", "ok")
              /\ UNCHANGED << failed, thrown >>
         ELSE /\ files' = [files EXCEPT ![filename(pets[idx])] =
                             IF w = "failed_partial" THEN "partial" ELSE @]
              /\ Catch("write failed")
              /\ thrown' = thrown + 1
              /\ obs' = Note("write", w)
  /\ UNCHANGED << apiKey, exitCode, dirExists, totalCost, result, summary, net,
                  run, start, prev, arg, ret >>

\* writeFile given the first record's path whatever the record.
WriteReturnWrongPath ==
  /\ pc = "write"
  /\ \E w \in WriteResults :
       IF w = "ok"
         THEN /\ files' = [files EXCEPT ![filename(pets[1])] = "img"]
              /\ console' = Append(console, Line("SAVED", pets[idx].id, ""))
              /\ generated' = generated + 1
              /\ pc' = "pause"
              /\ obs' = [obs EXCEPT ![idx].write = "ok", ![idx].pause = "started"]
              /\ UNCHANGED << failed, idx, thrown >>
         ELSE /\ files' = [files EXCEPT ![filename(pets[1])] =
                             IF w = "failed_partial" THEN "partial" ELSE @]
              /\ Catch("write failed")
              /\ thrown' = thrown + 1
              /\ obs' = Note("write", w)
  /\ UNCHANGED << apiKey, exitCode, dirExists, totalCost, result, summary, net,
                  run, start, prev, arg, ret >>

\* writeFile settles: the file holds the bytes, `Saved` is printed, generated++
\* and the 200 ms timer is started; or it throws, leaving no file or a partial one.
WriteReturn ==
  /\ pc = "write"
  /\ \E w \in WriteResults :
       IF w = "ok"
         THEN /\ files' = [files EXCEPT ![filename(pets[idx])] = "img"]
              /\ console' = Append(console, Line("SAVED", pets[idx].id, ""))
              /\ generated' = generated + 1
              /\ pc' = "pause"
              /\ obs' = [obs EXCEPT ![idx].write = "ok", ![idx].pause = "started"]
              /\ UNCHANGED << failed, idx, thrown >>
         ELSE /\ files' = [files EXCEPT ![filename(pets[idx])] =
                             IF w = "failed_partial" THEN "partial" ELSE @]
              /\ Catch("write failed")
              /\ thrown' = thrown + 1
              /\ obs' = Note("write", w)
  /\ UNCHANGED << apiKey, exitCode, dirExists, totalCost, result, summary, net,
                  run, start, prev, arg, ret >>

\* The end of the try block without the loop moving on to the next record.
PauseDoneNoAdvance ==
  /\ pc = "pause"
  /\ pc' = "loop"
  /\ obs' = Note("pause", "elapsed")
  /\ UNCHANGED << apiKey, exitCode, dirExists, files, idx, totalCost, generated,
                  failed, result, console, summary, net, run, thrown, start,
                  prev, arg, ret >>

\* The timer fires: end of the try block, the loop goes on to the next record.
PauseDone ==
  /\ pc = "pause"
  /\ idx' = idx + 1
  /\ pc' = "loop"
  /\ obs' = Note("pause", "elapsed")
  /\ UNCHANGED << apiKey, exitCode, dirExists, files, totalCost, generated, failed,
                  result, console, summary, net, run, thrown, start, prev,
                  arg, ret >>

\* A summary that sets a failure status when a record failed.
SummaryExitOnFailure ==
  /\ pc = "loop" /\ idx > NumPets
  /\ summary' = Append(summary, [generated |-> generated, failed |-> failed,
                                 totalCost |-> totalCost])
  /\ exitCode' = IF failed > 0 THEN 1 ELSE exitCode
  /\ pc' = "done"
  /\ UNCHANGED << apiKey, dirExists, files, idx, totalCost, generated,
                  failed, result, console, net, run, obs, thrown, start, prev,
                  arg, ret >>

\* After the loop: the three summary lines; main resolves.
Summary ==
  /\ pc = "loop" /\ idx > NumPets
  /\ summary' = Append(summary, [generated |-> generated, failed |-> failed,
                                 totalCost |-> totalCost])
  /\ pc' = "done"
  /\ UNCHANGED << apiKey, exitCode, dirExists, files, idx, totalCost, generated,
                  failed, result, console, net, run, obs, thrown, start, prev,
                  arg, ret >>

\* The script is started again on the same directory: a new process, with the
\* environment it is given; the files are as the last run left them.
NextRun ==
  /\ pc \in {"done", "rejected", "exited"}
  /\ run < MaxRuns
  /\ run' = run + 1
  /\ apiKey' \in BOOLEAN
  /\ pc' = "load"
  /\ exitCode' = 0
  /\ idx' = 1
  /\ totalCost' = 0 /\ generated' = 0 /\ failed' = 0
  /\ result' = NoResult
  /\ console' = << >> /\ summary' = << >> /\ net' = << >>
  /\ obs' = [i \in Recs |-> NoObs]
  /\ thrown' = 0
  /\ start' = [dir |-> dirExists, files |-> files]
  /\ prev' = [end |-> pc, faulty |-> Faulty]
  /\ UNCHANGED << dirExists, files, arg, ret >>

Next ==
  \/ CheckApiKey
  \/ MainSetup
  \/ MkdirReturn
  \/ LoopSkip
  \/ LoopGenerate
  \/ GenReturn
  \/ DlReturn
  \/ WriteReturn
  \/ PauseDone
  \/ Summary
  \/ NextRun

Spec == Init /\ [][Next]_vars

\* The steps of one process.  Node's event loop runs the continuation of every
\* settled promise and of every timer that fired, so a step that can be taken
\* is taken.  FairSpec is one run of the script, from any directory it may
\* find, under that scheduling.
Step ==
  \/ CheckApiKey
  \/ MainSetup
  \/ MkdirReturn
  \/ LoopSkip
  \/ LoopGenerate
  \/ GenReturn
  \/ DlReturn
  \/ WriteReturn
  \/ PauseDone
  \/ Summary

FairSpec == Init /\ [][Step]_vars /\ WF_vars(Step)

\* ------------------------------------------------- buildPrompt on its own
\* buildPrompt reads two fields of its argument.  Visual descriptions are the
\* catalog's; temperaments are the six of the table, and strings that are not
\* keys of the table.
PromptTemperaments ==
  DOMAIN temperamentToExpression
    \cup {"unknown", "", "undefined", "grumpy", "Calm", "constructor", "toString",
          "valueOf", "hasOwnProperty", "__proto__"}

PromptInputs ==
  { [id |-> catalog[i].id, temperament |-> t, prompt |-> catalog[i].prompt] :
      i \in DOMAIN catalog, t \in PromptTemperaments }

InitPrompt ==
  /\ arg \in PromptInputs
  /\ ret = ""
  /\ pc = "call"
  /\ apiKey = TRUE /\ exitCode = 0 /\ dirExists = FALSE
  /\ files = [p \in Paths |-> NoFile]
  /\ idx = 1 /\ totalCost = 0 /\ generated = 0 /\ failed = 0
  /\ result = NoResult
  /\ console = << >> /\ summary = << >> /\ net = << >>
  /\ run = 1
  /\ obs = [i \in Recs |-> NoObs]
  /\ thrown = 0
  /\ start = [dir |-> FALSE, files |-> files]
  /\ prev = [end |-> "none", faulty |-> FALSE]

CallBuildPrompt ==
  /\ pc = "call"
  /\ ret' = buildPrompt(arg)
  /\ pc' = "returned"
  /\ UNCHANGED << apiKey, exitCode, dirExists, files, idx, totalCost, generated,
                  failed, result, console, summary, net, run, obs, thrown, start,
                  prev, arg >>

NextPrompt == CallBuildPrompt

SpecPrompt == InitPrompt /\ [][NextPrompt]_vars

\* ------------------------------------------------------ reading the history
\* A failure was raised while record i was processed.
Raised(i) ==
  \/ obs[i].gen \in {"rejected", "status", "status_errors", "badjson", "errors",
                     "errors_data", "nodata", "empty"}
  \/ obs[i].dl \in {"nourl", "rejected", "http_error", "body_error"}
  \/ obs[i].write \in {"failed_nofile", "failed_partial"}

\* The generation request for record i failed (transport or service error).
GenFailed(i) ==
  obs[i].gen \in {"rejected", "status", "status_errors", "badjson", "errors",
                  "errors_data"}

\* Record i was generated, downloaded and written in this run.
Saved(i) == obs[i].gen = "entry" /\ obs[i].dl = "ok" /\ obs[i].write = "ok"

\* Record i had its file when the loop reached it.
Skipped(i) == obs[i].seen = "present"

Processed == { i \in Recs : Skipped(i) \/ Raised(i) \/ Saved(i) }

IsPost(i, q) == q.method = "POST" /\ q.id = pets[i].id
IsGet(i, q)  == q.method = "GET" /\ q.id = pets[i].id

Posts(i) == Cardinality({ k \in DOMAIN net : IsPost(i, net[k]) })
Gets(i)  == Cardinality({ k \in DOMAIN net : IsGet(i, net[k]) })

HasLine(tag, i) ==
  \E k \in DOMAIN console : console[k].tag = tag /\ console[k].id = pets[i].id

IsItemLine(l) == l.tag \in {"SKIP", "SAVED", "FAILED"}
ItemLines == SelectSeq(console, IsItemLine)

\* The cost record i's generation answer reported, zero when it reported none.
ObsCost(i) == IF obs[i].hasCost THEN obs[i].cost ELSE 0

RECURSIVE SumCost(_)
SumCost(S) ==
  IF S = {} THEN 0
  ELSE LET i == CHOOSE x \in S : TRUE IN ObsCost(i) + SumCost(S \ {i})

\* ------------------------------------------------------------------ claims

\* C1 -- Failure isolation: every failure raised while a record is processed
\* (generation, download or write) is caught at that record: it is printed as
\* that record's failure, counted in `failed`, the loop is past the record and
\* the run is still going or has reached the summary; a run in which a record
\* failed never ends before every record has been processed.
C1_FailureIsolation ==
  /\ failed = Cardinality({ i \in Recs : Raised(i) })
  /\ \A i \in Recs : Raised(i) =>
       /\ HasLine("FAILED", i)
       /\ idx > i
       /\ pc \in {"loop", "gen", "dl", "write", "pause", "done"}
       /\ exitCode = 0
  /\ (pc \in {"done", "rejected", "exited"} /\ \E i \in Recs : Raised(i)) =>
       pc = "done" /\ Processed = Recs

\* C1 witness: the first record's write failed half-way, the second record was
\* then generated and saved, and the run reached the summary.
C1_Witness ==
  /\ pc = "done"
  /\ obs[1].write = "failed_partial"
  /\ Saved(2)

\* C2 -- Accounting: at every item boundary generated + failed is the number
\* of records processed so far, and every summary printed has
\* generated + failed = the number of catalog records.
C2_Accounting ==
  /\ pc = "loop" =>
       /\ generated + failed = Cardinality(Processed)
       /\ Cardinality(Processed) = idx - 1
  /\ \A k \in DOMAIN summary :
       summary[k].generated + summary[k].failed = NumPets

\* C2 witness: a summary after a run that skipped one record and failed another.
C2_Witness ==
  /\ summary # << >>
  /\ \E i, j \in Recs : Skipped(i) /\ Raised(j)

\* C3 -- Skip rule: a record whose file exists when the loop reaches it gets no
\* generation request and no download request in this run and is counted as
\* generated: generated is the number of skipped plus saved records, and failed
\* counts only records on which a failure was raised.
C3_SkipRule ==
  /\ \A i \in Recs : Skipped(i) =>
       /\ Posts(i) = 0 /\ Gets(i) = 0
       /\ ~Raised(i)
       /\ pc # "loop" \/ idx > i
  /\ generated = Cardinality({ i \in Recs : Skipped(i) \/ Saved(i) })
  /\ failed = Cardinality({ i \in Recs : Raised(i) })

\* C3 witness: the run is over, one record was skipped and requests were sent
\* for another one.
C3_Witness ==
  /\ pc = "done"
  /\ \E i \in Recs : Skipped(i) /\ generated >= 1
  /\ net # << >>

\* C4 -- Idempotence: in a run that follows a run which reached its summary
\* without any fault, and in which no fault occurs either, no request is sent,
\* the directory and the files are as the run found them, and the summary
\* reads generated = number of records, failed = 0, total cost 0.
C4_Idempotence ==
  (/\ prev.end = "done" /\ ~prev.faulty
   /\ pc \notin {"load", "exited"} /\ ~Faulty) =>
     /\ net = << >>
     /\ files = start.files /\ dirExists = start.dir
     /\ \A k \in DOMAIN summary :
          summary[k] = [generated |-> NumPets, failed |-> 0, totalCost |-> 0]

\* C4 witness: the second of two fault-free runs has printed its summary, and
\* the first one had generated an image.
C4_Witness ==
  /\ prev.end = "done" /\ ~prev.faulty
  /\ pc = "done" /\ summary # << >>
  /\ \E p \in Paths : files[p] = "img"

\* C5 -- Re-run after a partial run: the number of generation requests sent for
\* a record is one when the record was reached with no file at its path, and
\* zero otherwise.
C5_GenerateIffMissing ==
  \A i \in Recs : Posts(i) = IF obs[i].seen = "absent" THEN 1 ELSE 0

\* C5 witness: the first record's file was present and the second one's was
\* not: no generation request for the first, one for the second.
C5_Witness ==
  /\ pc = "done"
  /\ Skipped(1) /\ Posts(1) = 0
  /\ obs[2].seen = "absent" /\ Posts(2) = 1

\* C6 as claimed -- the summary's total cost is the sum of the reported costs
\* of the records that were generated, downloaded and written in this run.
C6_CostOfSavedOnly ==
  \A k \in DOMAIN summary :
    summary[k].totalCost = SumCost({ i \in Recs : Saved(i) })

\* C6 -- Cost accounting, as the code has it: the summary's total cost is the
\* sum of the reported costs of the records whose generation request returned
\* a result in this run, whether or not the download and the write that
\* followed succeeded; skipped records and records whose generation request
\* returned no result contribute zero.
C6_CostOfReturned ==
  \A k \in DOMAIN summary :
    summary[k].totalCost = SumCost({ i \in Recs : obs[i].gen = "entry" })

\* C6 witness: a summary with a non-zero total although the only cost reported
\* belongs to a record whose download failed.
C6_Witness ==
  /\ summary # << >>
  /\ summary[1].totalCost > 0
  /\ \E i \in Recs : obs[i].gen = "entry" /\ ObsCost(i) > 0 /\ Raised(i)
  /\ \A i \in Recs : ~Saved(i)

\* C7 -- Single failure: in a run that found no asset file, in which the
\* generation request failed for exactly one record and every other record was
\* generated, downloaded and written, all records are processed, the summary
\* reads generated = N - 1 and failed = 1, and the failed record has no file.
C7_SingleFailure ==
  \A i \in Recs :
    (/\ pc = "done"
     /\ \A p \in Paths : start.files[p] = NoFile
     /\ GenFailed(i)
     /\ \A j \in Recs \ {i} : Saved(j)) =>
       /\ Processed = Recs
       /\ Len(summary) = 1
       /\ summary[1].generated = NumPets - 1
       /\ summary[1].failed = 1
       /\ files[filename(pets[i])] = NoFile

\* C7 witness: such a run, where the endpoint answered the first record with a
\* non-success status.
C7_Witness ==
  /\ pc = "done"
  /\ \A p \in Paths : start.files[p] = NoFile
  /\ obs[1].gen = "status"
  /\ \A j \in Recs \ {1} : Saved(j)

\* C8 -- Missing credential: once the module body has run without the
\* credential, the process has exited with status 1 and nothing else has
\* happened: the directory and the files are untouched, no request was sent,
\* no record was looked at and no summary was printed.
C8_MissingCredential ==
  (~apiKey /\ pc # "load") =>
     /\ pc = "exited"
     /\ exitCode = 1
     /\ dirExists = start.dir /\ files = start.files
     /\ net = << >>
     /\ summary = << >>
     /\ \A i \in Recs : obs[i] = NoObs
     /\ \A k \in DOMAIN console : console[k].tag = "NOKEY"

\* C8 witness: the process has exited and the absent directory was not created.
C8_Witness ==
  /\ ~apiKey /\ pc = "exited"
  /\ ~dirExists

\* C9 -- Once each, in order: the item lines printed in a run are those of the
\* first records of the catalog, one per record and in catalog order, and they
\* are exactly the records processed; at most one summary is printed, only
\* when every record has its line, and it is the last thing main does.  A run
\* that has entered the loop ends only by the summary; a run that ends in the
\* credential check or in the directory setup has processed no record.
C9_OnceInOrder ==
  /\ Len(ItemLines) <= NumPets
  /\ \A k \in DOMAIN ItemLines : ItemLines[k].id = pets[k].id
  /\ Processed = 1..Len(ItemLines)
  /\ Len(summary) <= 1
  /\ summary # << >> => Len(ItemLines) = NumPets /\ pc = "done"
  /\ pc = "done" => Len(summary) = 1
  /\ pc \in {"exited", "rejected"} => Processed = {} /\ ItemLines = << >>

\* C9 witness: a finished run whose records were skipped, saved and failed.
C9_Witness ==
  /\ pc = "done" /\ Len(summary) = 1
  /\ Len(ItemLines) = NumPets
  /\ \E i, j \in Recs : i # j /\ Saved(i) /\ Raised(j)

\* C10 -- buildPrompt: for every record the result is the template with the
\* record's visual description and with the table's word when the temperament
\* is one of the table's six keys, and with "friendly" for every other
\* temperament.
C10_BuildPromptTotal ==
  pc = "returned" =>
    ret = "simple cartoon illustration of a " \o arg.prompt
            \o ", white background, "
            \o (CASE arg.temperament = "calm"         -> "peaceful"
                  [] arg.temperament = "playful"      -> "happy"
                  [] arg.temperament = "affectionate" -> "friendly"
                  [] arg.temperament = "shy"          -> "gentle"
                  [] arg.temperament = "energetic"    -> "excited"
                  [] arg.temperament = "independent"  -> "confident"
                  [] OTHER                            -> "friendly")
            \o " expression, flat colors"

\* C11 as claimed -- every run that starts (credential present) reaches the
\* summary: a started run that can take no further step has printed it.
C11_StartedRunStopsAtSummary ==
  (apiKey /\ pc # "load" /\ ~ENABLED Step) => summary # << >>

\* C11 -- Run completion, as the code has it: every run that starts
\* eventually prints the summary, or ends in the directory setup: the
\* directory was absent, creating it failed, main rejected, and no record was
\* processed and no request sent.
C11_RunCompletion ==
  (pc = "main") ~>
     \/ (pc = "done" /\ Len(summary) = 1)
     \/ (pc = "rejected" /\ ~start.dir /\ ~dirExists /\ Processed = {} /\ net = << >>)

\* C11 witness: the directory was absent and was created, records failed and
\* were saved, and the summary is printed.
C11_Witness ==
  /\ pc = "done" /\ Len(summary) = 1
  /\ ~start.dir /\ dirExists
  /\ \E i, j \in Recs : Raised(i) /\ Saved(j)

\* C12 as claimed -- only the missing credential is fatal: with the
\* credential present a run never ends otherwise than by its summary.
C12_OnlyCredentialFatal ==
  apiKey => pc \notin {"rejected", "exited"}

\* C12 -- What is fatal, as the code has it: a run ends without a summary only
\* when the credential is missing or when creating the absent output directory
\* fails; in the latter case main rejects before any record is processed, the
\* failure is printed at the top level and is not counted.  Every failure
\* raised for a record (generation, download, write) is caught and counted and
\* the run goes on.
C12_FatalOnlyInSetup ==
  /\ pc = "exited" => ~apiKey
  /\ pc = "rejected" =>
       /\ ~start.dir /\ ~dirExists
       /\ Processed = {} /\ net = << >> /\ summary = << >>
       /\ failed = 0
       /\ console[Len(console)].tag = "UNCAUGHT"
  /\ failed = thrown
  /\ \A i \in Recs : Raised(i) => pc \notin {"rejected", "exited"}

\* C12 witness: creating the directory failed and main rejected.
C12_Witness ==
  /\ apiKey /\ pc = "rejected"
  /\ ~dirExists /\ summary = << >>

\* Requests sent and not yet answered.
Answered ==
  Cardinality({ i \in Recs : obs[i].gen # "none" })
    + Cardinality({ i \in Recs : obs[i].dl \in DlResponses })

Outstanding == Len(net) - Answered

\* Record i has been reached and its iteration, pause included, is not over.
InFlight(i) ==
  /\ obs[i].seen # "unreached"
  /\ i \notin Processed \/ obs[i].pause = "started"

\* C13 -- Strictly sequential: at most one request is outstanding at any
\* moment, and a record is reached only when every earlier record has been
\* processed and its pause, when one was taken, has elapsed; only the record
\* the loop is at can be in flight.
C13_Sequential ==
  /\ Outstanding \in {0, 1}
  /\ Outstanding = 1 <=> pc \in {"gen", "dl"}
  /\ \A i \in Recs : obs[i].seen # "unreached" =>
       \A j \in 1..(i - 1) : j \in Processed /\ obs[j].pause # "started"
  /\ \A i \in Recs : InFlight(i) => i = idx

\* C13 witness: the download of the second record is outstanding; the first
\* record was saved and its pause has elapsed.
C13_Witness ==
  /\ pc = "dl" /\ idx = 2
  /\ Outstanding = 1
  /\ Saved(1) /\ obs[1].pause = "elapsed"

\* C14 -- Inter-item pause: a record that was generated, downloaded and saved
\* has its pause started, and the pause has elapsed before the next record is
\* reached and before the summary; a skipped record has no pause.
C14_PauseAfterSuccess ==
  \A i \in Recs :
    /\ Saved(i) => obs[i].pause \in {"started", "elapsed"}
    /\ (Saved(i) /\ (pc = "done" \/ \E j \in Recs : j > i /\ obs[j].seen # "unreached"))
         => obs[i].pause = "elapsed"
    /\ obs[i].pause = "started" <=> (pc = "pause" /\ idx = i)
    /\ Skipped(i) => obs[i].pause = "none"

\* C14 witness: the first record was saved and paused for, the second skipped.
C14_Witness ==
  /\ pc = "done"
  /\ Saved(1) /\ obs[1].pause = "elapsed"
  /\ Skipped(2) /\ obs[2].pause = "none"

\* C15 -- A file that exists when the run starts has the same contents at
\* every later moment of the run.
C15_ExistingFilesUntouched ==
  \A p \in Paths : start.files[p] # NoFile => files[p] = start.files[p]

\* C15 witness: the run is over, it found one file and saved another.
C15_Witness ==
  /\ pc = "done"
  /\ \E p \in Paths : start.files[p] = "old" /\ files[p] = "old"
  /\ \E i \in Recs : Saved(i)
  /\ run = 1

\* C16 -- Per-item order: the download request follows the generation request
\* and is sent only when the generation request returned a result; the write
\* happens only after the download succeeded; a failed generation request is
\* followed by no download and no write, a failed download by no write.
C16_OperationOrder ==
  \A i \in Recs :
    /\ \A k \in DOMAIN net : IsGet(i, net[k]) =>
         \E m \in 1..(k - 1) : IsPost(i, net[m])
    /\ Gets(i) > 0 => obs[i].gen = "entry"
    /\ obs[i].dl # "none" => obs[i].gen = "entry"
    /\ obs[i].write # "none" => obs[i].dl = "ok"
    /\ (pc = "write" /\ idx = i) => obs[i].dl = "ok"
    /\ files[filename(pets[i])] # start.files[filename(pets[i])] => obs[i].dl = "ok"
    /\ (GenFailed(i) \/ obs[i].gen \in {"nodata", "empty"}) =>
         Gets(i) = 0 /\ obs[i].dl = "none" /\ obs[i].write = "none"

\* C16 witness: the first record went through the three steps, the second
\* one's download was answered with an error status and nothing was written.
C16_Witness ==
  /\ pc = "done"
  /\ Saved(1)
  /\ obs[2].dl = "http_error" /\ obs[2].write = "none"
  /\ files[filename(pets[2])] = NoFile

FailedLines(i) ==
  Cardinality({ k \in DOMAIN console :
                  console[k].tag = "FAILED" /\ console[k].id = pets[i].id })

\* C17 -- No retry: at most one generation request and one download request
\* per record in a run; a record that failed had one generation request, is
\* printed as failed once, and the loop is past it.
C17_NoRetry ==
  \A i \in Recs :
    /\ Posts(i) <= 1 /\ Gets(i) <= 1
    /\ Raised(i) =>
         /\ Posts(i) = 1
         /\ FailedLines(i) = 1
         /\ idx > i

\* C17 witness: the first record's download was rejected: one request of each
\* kind was sent for it and the run went on to the summary.
C17_Witness ==
  /\ pc = "done"
  /\ obs[1].dl = "rejected"
  /\ Posts(1) = 1 /\ Gets(1) = 1 /\ FailedLines(1) = 1

FailedWith(i, text) ==
  \E k \in DOMAIN console : console[k] = Line("FAILED", pets[i].id, text)

\* generateImage on every answer with a non-success status: it throws, the
\* message carries the status, and nothing is returned.
StatusAnswersThrow ==
  \A r \in GenResponses : (r.net = "response" /\ ~r.ok) =>
    generateImage(r) = Throw("API error: <status>")

\* C18 -- Transport error: for every answer with a non-success status
\* generateImage throws an error whose message carries the status and returns
\* no result; the record is printed as failed with that message, counted as
\* failed, and no download is requested for it.
C18_TransportError ==
  /\ StatusAnswersThrow
  /\ \A i \in Recs : obs[i].gen \in {"status", "status_errors"} =>
       /\ FailedWith(i, "API error: <status>")
       /\ Gets(i) = 0
       /\ failed = Cardinality({ j \in Recs : HasLine("FAILED", j) })
       /\ ~Saved(i) /\ ~HasLine("SAVED", i)

\* C18 witness: the endpoint answered the second record with an error status.
C18_Witness ==
  /\ pc = "done"
  /\ obs[2].gen = "status"
  /\ failed >= 1

\* generateImage on every parsed payload with an `errors` field, with or
\* without `data`: it throws, the message carries the serialized errors, and
\* nothing is returned.
ErrorsAnswersThrow ==
  \A r \in GenResponses : (r.net = "response" /\ r.ok /\ r.json /\ r.errors) =>
    generateImage(r) = Throw("API error: <errors>")

OnlyDestinationWritten ==
  \A p \in Paths : files'[p] # files[p] =>
    pc = "write" /\ p = filename(pets[idx])

\* C20 -- downloadImage touches one file: a file differs from what the run
\* found only when its record's download succeeded and the write was made; a
\* saved record's file holds the downloaded bytes; a download answered with an
\* error status leaves the file as it was; and no step changes a file other
\* than the one of the record being written.
C20_OneFileTouched ==
  /\ [](\A i \in Recs :
          LET p == filename(pets[i]) IN
          /\ files[p] # start.files[p] =>
               obs[i].dl = "ok" /\ obs[i].write \in {"ok", "failed_partial"}
          /\ Saved(i) => files[p] = "img"
          /\ obs[i].dl \in {"rejected", "http_error", "body_error"} =>
               files[p] = start.files[p])
  /\ [][OnlyDestinationWritten]_vars

\* C20 witness: the first record's download was answered with an error status
\* and it has no file; the second record's file holds the downloaded bytes.
C20_Witness ==
  /\ pc = "done"
  /\ obs[1].dl = "http_error" /\ files[filename(pets[1])] = NoFile
  /\ Saved(2) /\ files[filename(pets[2])] = "img"

\* The records before record i in the catalog.
Before(i) == { j \in Recs : j < i }

\* What the steps of a record that succeeds do to the three counters: the
\* return of generateImage with a result that has no cost (absent or zero),
\* the return of the download, the return of writeFile, the end of the pause.
SuccessStepCounters ==
  /\ (pc = "gen" /\ pc' = "dl" /\ (~result'.hasCost \/ result'.cost = 0)) =>
       UNCHANGED << totalCost, generated, failed >>
  /\ (pc = "dl" /\ pc' = "write") =>
       UNCHANGED << totalCost, generated, failed >>
  /\ (pc = "write" /\ pc' = "pause") =>
       /\ generated' = generated + 1
       /\ UNCHANGED << totalCost, failed >>
  /\ (pc = "pause" /\ pc' = "loop") =>
       UNCHANGED << totalCost, generated, failed >>

\* C21 -- Success step with absent cost: once a record whose generation result
\* carries no cost (absent or zero) has been generated, downloaded and written,
\* the total cost is what the records before it made it, generated is one more
\* than what they made it and failed is what they made it; and step by step,
\* neither the return of such a result nor the download changes a counter, and
\* the write adds one to generated and nothing else.
C21_AbsentCostSuccess ==
  /\ [](\A i \in Recs :
          (Saved(i) /\ (~obs[i].hasCost \/ obs[i].cost = 0) /\ idx = i) =>
            /\ totalCost = SumCost({ j \in Before(i) : obs[j].gen = "entry" })
            /\ generated = Cardinality({ j \in Before(i) : Skipped(j) \/ Saved(j) }) + 1
            /\ failed = Cardinality({ j \in Before(i) : Raised(j) }))
  /\ [][SuccessStepCounters]_vars

\* C21 witness: the first record's result reported a cost and its download
\* failed; the second record's result had no cost field and was saved.
C21_Witness ==
  /\ pc = "pause" /\ idx = 2
  /\ obs[1].gen = "entry" /\ obs[1].cost = MaxCost /\ Raised(1)
  /\ Saved(2) /\ ~obs[2].hasCost
  /\ totalCost = MaxCost /\ generated = 1 /\ failed = 1

\* The run found no asset file (the directory was absent, or held none).
StartedEmpty == \A p \in Paths : start.files[p] = NoFile

\* C22 -- Fault-free run from an empty output directory: when the run found no
\* asset file and no generation, download, write or directory creation failed,
\* the run ends with one summary that reads generated = number of records,
\* failed = 0, total cost = the sum of the costs the results reported (zero
\* for a result without a cost); every record was requested once, saved, and
\* has its file holding the downloaded bytes.
C22_FaultFreeRun ==
  (StartedEmpty /\ ~Faulty /\ pc = "done") =>
    /\ summary = << [generated |-> NumPets, failed |-> 0,
                     totalCost |-> SumCost(Recs)] >>
    /\ dirExists
    /\ \A i \in Recs :
         /\ Saved(i)
         /\ Posts(i) = 1 /\ Gets(i) = 1
         /\ files[filename(pets[i])] = "img"

\* C22 witness: the directory was absent, every record was saved, each result
\* reported the largest cost, and the summary was printed.
C22_Witness ==
  /\ pc = "done" /\ ~start.dir /\ ~Faulty
  /\ \A i \in Recs : Saved(i) /\ obs[i].hasCost /\ obs[i].cost = MaxCost
  /\ Len(summary) = 1 /\ summary[1].totalCost = NumPets * MaxCost

\* main is in the loop over the catalog or past it.
InLoop == pc \in {"loop", "gen", "dl", "write", "pause", "done"}

\* C23 -- Output directory setup: whenever the loop over the catalog has been
\* entered the output directory exists; mkdir is awaited only in a run that
\* found the directory absent; a run that found the directory present never
\* awaits mkdir, never rejects, and enters the loop with the directory and the
\* files as it found them and nothing printed but the start line.
C23_DirectorySetup ==
  /\ InLoop => dirExists
  /\ (\E i \in Recs : obs[i].seen # "unreached") => dirExists
  /\ pc = "mkdir" => ~start.dir /\ ~dirExists
  /\ start.dir =>
       /\ dirExists
       /\ pc \notin {"mkdir", "rejected"}
       /\ (pc = "loop" /\ idx = 1) =>
            /\ files = start.files
            /\ console = << Line("START", "", "") >>

\* C23 witness: a second run is entering the loop; it found the directory
\* present, with an image an earlier run had saved in it.
C23_Witness ==
  /\ run = 2 /\ start.dir
  /\ pc = "loop" /\ idx = 1
  /\ \E p \in Paths : files[p] = "img"

\* Position in `net` of the generation request for record i (0 when none).
PostAt(i) ==
  IF Posts(i) = 0 THEN 0 ELSE CHOOSE k \in DOMAIN net : IsPost(i, net[k])

\* C24 -- Request spacing: while the pause that follows a saved record has not
\* elapsed, no request has been sent for any later record; so for two records
\* saved in a run, and for any request sent after a saved record, the pause of
\* the earlier record elapsed before the later generation request was sent,
\* and the requests are in catalog order.
C24_RequestSpacing ==
  \A i \in Recs : Saved(i) =>
    /\ obs[i].pause \in {"started", "elapsed"}
    /\ \A j \in Recs : (i < j /\ Posts(j) > 0) =>
         /\ obs[i].pause = "elapsed"
         /\ PostAt(i) < PostAt(j)
    /\ obs[i].pause = "started" =>
         /\ pc = "pause" /\ idx = i
         /\ \A j \in Recs : i < j => Posts(j) = 0 /\ Gets(j) = 0

\* C24 witness: two records were saved in the run; the pause after the first
\* had elapsed when the second one's request was sent.
C24_Witness ==
  /\ Saved(1) /\ Saved(2)
  /\ obs[1].pause = "elapsed"
  /\ PostAt(1) = 1 /\ PostAt(2) = 3

\* The positions in `net` of the generation requests.
PostIndices == { k \in DOMAIN net : net[k].method = "POST" }

\* C25 -- Every generation request carries a task identifier drawn for that
\* call: no two generation requests of a run carry the same identifier,
\* whatever their prompts, and each request sent for a record carries that
\* record's prompt.
C25_FreshTaskUUID ==
  /\ \A k, l \in PostIndices : k # l => net[k].taskUUID # net[l].taskUUID
  /\ \A i \in Recs : \A k \in PostIndices :
       net[k].id = pets[i].id => net[k].prompt = buildPrompt(pets[i])

\* C25 witness: two generation requests were sent in the run, with two
\* different identifiers.
C25_Witness ==
  /\ Cardinality(PostIndices) >= 2
  /\ \E k, l \in PostIndices : k < l /\ net[k].taskUUID # net[l].taskUUID

\* The records whose generation request returned a result in this run.
Returned == { i \in Recs : obs[i].gen = "entry" }

\* C26 -- At every point of a run the total cost is the sum of the costs (zero
\* when absent) of the generation results returned so far in the run, whether
\* or not the download or the write that followed succeeded; and within a run
\* the total cost never decreases.
C26_RunningCost ==
  /\ [](totalCost = SumCost(Returned))
  /\ [][run' = run => totalCost' >= totalCost]_vars

\* C26 witness: the run is still going; the first record's result reported a
\* cost and its download failed, the second one's request is outstanding, and
\* the total holds the first record's cost.
C26_Witness ==
  /\ pc = "gen" /\ idx = 2
  /\ obs[1].gen = "entry" /\ obs[1].dl = "http_error"
  /\ obs[1].hasCost /\ obs[1].cost = MaxCost
  /\ totalCost = MaxCost

\* C27 as claimed -- at the end of a run no file exists at the destination
\* path of any record counted as failed in that run, whichever of generation,
\* download or write failed.
C27_NoFileForFailed ==
  pc = "done" => \A i \in Recs : Raised(i) => files[filename(pets[i])] = NoFile

\* C27 -- as the code has it: a record counted as failed because its
\* generation or its download failed has no file at its destination path, and
\* neither has one whose write failed before any byte was stored; a record
\* whose write failed half-way has a partial file there.  A run attempts
\* exactly the records it found without a file and skips the ones it found
\* with a file, a partial file included.
C27_FailedFileOnlyFromWrite ==
  /\ \A i \in Recs : Raised(i) =>
       files[filename(pets[i])] =
         IF obs[i].write = "failed_partial" THEN "partial" ELSE NoFile
  /\ \A i \in Recs : obs[i].seen # "unreached" =>
       IF start.files[filename(pets[i])] = NoFile
         THEN ~Skipped(i) /\ Posts(i) = 1
         ELSE Skipped(i) /\ Posts(i) = 0 /\ ~Raised(i)

\* C27 witness: the run before this one had failures; this run found a
\* partial file for one record and skipped it, found no file for another
\* record and saved it.
C27_Witness ==
  /\ run = 2 /\ prev.end = "done" /\ prev.faulty
  /\ pc = "done"
  /\ \E i, j \in Recs :
       /\ start.files[filename(pets[i])] = "partial" /\ Skipped(i)
       /\ start.files[filename(pets[j])] = NoFile /\ Saved(j)

\* The records that have an asset file at this moment.
WithFile == { i \in Recs : files[filename(pets[i])] # NoFile }

\* C28 -- Every record counted as generated (skipped because its file was
\* there, or saved in this run) has a file at its destination path, a saved
\* one the downloaded bytes; so generated never exceeds the number of records
\* that have an asset file, in the run and in its summary.
C28_GeneratedHaveFiles ==
  /\ \A i \in Recs :
       /\ (Skipped(i) \/ Saved(i)) => i \in WithFile
       /\ Saved(i) => files[filename(pets[i])] = "img"
  /\ generated <= Cardinality(WithFile)
  /\ \A k \in DOMAIN summary : summary[k].generated <= Cardinality(WithFile)

\* C28 witness: the run ended with one record skipped, one saved, both counted
\* as generated and both with a file.
C28_Witness ==
  /\ pc = "done" /\ summary # << >>
  /\ \E i, j \in Recs : Skipped(i) /\ Saved(j)
  /\ generated = 2 /\ Cardinality(WithFile) >= 2

\* The generation answer for record i had a success status, a body that
\* parsed and no `errors` field, but no usable first result: `data` missing,
\* `data` empty, or a first entry without imageURL.
Unusable(i) == obs[i].gen \in {"nodata", "empty"} \/ obs[i].dl = "nourl"

\* C29 -- A generation answer with a success status and no `errors` field
\* but without a usable first result makes the record fail inside its own
\* boundary: it is printed as failed once and counted as failed, no download
\* request is sent and no file is written for it, the loop is past it, and
\* the run goes on to the next record and ends with the summary.
C29_MalformedSuccess ==
  /\ \A i \in Recs : Unusable(i) =>
       /\ FailedLines(i) = 1 /\ ~HasLine("SAVED", i)
       /\ failed = Cardinality({ j \in Recs : HasLine("FAILED", j) })
       /\ failed >= 1
       /\ Gets(i) = 0
       /\ files[filename(pets[i])] = NoFile
       /\ idx > i
       /\ pc \in {"loop", "gen", "dl", "write", "pause", "done"}
       /\ exitCode = 0
  /\ (pc \in {"done", "rejected", "exited"} /\ \E i \in Recs : Unusable(i)) =>
       /\ pc = "done" /\ Len(summary) = 1
       /\ Processed = Recs

\* C29 witness: the answer for the first record had an empty `data`, the
\* second record's first entry had no imageURL, and the run printed its
\* summary with both counted as failed.
C29_Witness ==
  /\ pc = "done" /\ Len(summary) = 1
  /\ obs[1].gen = "empty" /\ obs[2].gen = "entry" /\ obs[2].dl = "nourl"
  /\ summary[1].failed = 2

\* C30 -- When the output directory is absent and creating it fails, the run
\* ends there: main has rejected, no step of the process is left, no record
\* was processed, no request was sent, no summary and no item line was
\* printed, the files are as the run found them, and the only report is the
\* one printed at the top level after the start line.  A run whose directory
\* is still absent after the setup is in no other state.
C30_MkdirFailureEndsRun ==
  /\ pc = "rejected" =>
       /\ apiKey /\ ~start.dir /\ ~dirExists
       /\ ~ENABLED Step
       /\ Processed = {} /\ obs = [i \in Recs |-> NoObs]
       /\ net = << >>
       /\ summary = << >>
       /\ generated = 0 /\ failed = 0 /\ totalCost = 0
       /\ console = << Line("START", "", ""), Line("UNCAUGHT", "", "mkdir failed") >>
       /\ files = start.files
  /\ (~dirExists /\ pc \notin {"load", "exited", "main", "mkdir"}) => pc = "rejected"

\* C30 witness: the directory was absent, mkdir failed and main rejected.
C30_Witness ==
  /\ pc = "rejected" /\ ~start.dir /\ ~dirExists
  /\ Len(console) = 2 /\ console[2].tag = "UNCAUGHT"
  /\ net = << >> /\ summary = << >>

\* C31 -- Exit status: the process has set a non-zero exit status exactly
\* when it found the credential absent and exited while the module was being
\* loaded; a run that reached the summary has set none, whatever the value of
\* failed, and a run whose main rejected has set none either.
C31_ExitStatus ==
  /\ exitCode \in {0, 1}
  /\ exitCode # 0 <=> (pc = "exited" /\ ~apiKey)
  /\ pc = "exited" => console = << Line("NOKEY", "", "") >> /\ summary = << >>
  /\ pc = "done" => exitCode = 0 /\ Len(summary) = 1
  /\ pc = "rejected" => exitCode = 0 /\ summary = << >>

\* C31 witness: the run reached the summary with every record counted as
\* failed, and no exit status was set.
C31_Witness ==
  /\ pc = "done" /\ Len(summary) = 1
  /\ summary[1].failed = NumPets /\ summary[1].generated = 0
  /\ exitCode = 0

\* The step in which a failure is raised on record i leaves main at the top
\* of the loop, on the next record, with no timer started for record i.
FailureGoesOn ==
  \A i \in Recs : (~Raised(i) /\ Raised(i)') =>
    /\ pc' = "loop" /\ idx' = i + 1
    /\ obs'[i].pause = "none"

\* C32 -- The pause is taken only after a record whose generation, download
\* and write all succeeded: main waits on the timer only for a saved record,
\* no timer was ever started for a record counted as failed (one whose
\* generation returned a result and whose download failed included) or
\* skipped, and the step that raises a failure puts main on the next record
\* at once, so the next generation request can be sent with no pause.
C32_PauseOnlyAfterSuccess ==
  /\ [](/\ pc = "pause" => Saved(idx)
        /\ \A i \in Recs :
             /\ obs[i].pause # "none" => Saved(i)
             /\ (Raised(i) \/ Skipped(i)) => obs[i].pause = "none")
  /\ [][FailureGoesOn]_vars

\* C32 witness: the first record's generation returned a result and its
\* download failed; the second record's generation request has been sent and
\* no pause was taken in between.
C32_Witness ==
  /\ pc = "gen" /\ idx = 2
  /\ obs[1].gen = "entry" /\ obs[1].dl \in {"rejected", "http_error", "body_error"}
  /\ obs[1].pause = "none"
  /\ Posts(2) = 1 /\ Len(net) = 3

\* generateImage on every answer with a non-success status, whatever its
\* body (not JSON, JSON with `errors`, JSON with `data`): the status failure;
\* and the `errors` failure only on answers with a success status.
StatusBeforePayload ==
  /\ \A r \in GenResponses : (r.net = "response" /\ ~r.ok) =>
       /\ generateImage(r) = Throw("API error: <status>")
       /\ generateImage(r).message # "API error: <errors>"
       /\ generateImage(r).message # "SyntaxError"
  /\ \A r \in GenResponses :
       generateImage(r).message = "API error: <errors>" =>
         r.net = "response" /\ r.ok /\ r.json /\ r.errors

\* C33 -- generateImage checks the HTTP status before it reads the payload:
\* an answer with a non-success status is reported as the status failure even
\* when its body carries an `errors` field, and the `errors` failure is
\* reported only for answers with a success status; so a record answered with
\* an error status has the status failure printed, and a record has the
\* `errors` failure printed only when its answer had a success status.
C33_StatusBeforePayload ==
  /\ StatusBeforePayload
  /\ \A i \in Recs :
       /\ obs[i].gen = "status_errors" =>
            /\ FailedWith(i, "API error: <status>")
            /\ ~FailedWith(i, "API error: <errors>")
            /\ FailedLines(i) = 1
       /\ FailedWith(i, "API error: <errors>") =>
            obs[i].gen \in {"errors", "errors_data"}

\* C33 witness: the first record was answered with an error status and a body
\* carrying `errors`; the run went on and printed the status failure for it.
C33_Witness ==
  /\ pc = "done"
  /\ obs[1].gen = "status_errors"
  /\ FailedWith(1, "API error: <status>")

====
